---------------------------- MODULE Spec2Model ----------------------------
(***************************************************************************)
(* Model of the compilation orchestration of the offline LaTeX compiler    *)
(* (src/app.py): the engine locator find_latex_engine and the request      *)
(* handler compile_latex, run by the threads of one server process that    *)
(* share the process-wide current directory and the filesystem.            *)
(*                                                                         *)
(* A directory is the sequence of its components below the directory the   *)
(* process was started in (<<>> is the start directory).  A file name is   *)
(* a sequence of tokens ("a", ".tex", ".pdf", "../"); a file is a record   *)
(* [dir, name].  Captured output is a sequence of bytes.                   *)
(***************************************************************************)
EXTENDS Naturals, Sequences, FiniteSets

\* ------------------------------------------------------------- bounds
\* compile requests accepted in one behaviour
MaxRequests == 2
\* installation changes (install / uninstall of an engine file) in one behaviour
MaxInstallChanges == 1

Threads == {"t1", "t2"}

\* ------------------------------------------------------ program constants
TEX_DIR == <<"tex_files">>
PDF_DIR == <<"pdf_output">>

LATEX_ENGINES ==
  [k \in {"pdflatex", "xelatex", "lualatex"} |-> k]

common_paths ==
  << "/Library/TeX/texbin",
     "/usr/local/texlive/2024/bin/universal-darwin",
     "/usr/local/texlive/2023/bin/universal-darwin" >>

\* the one directory of the process's executable search path
SearchPath == "/usr/bin"

\* ------------------------------------------------------------ inputs
\* engine-kind strings a request may carry ("latex" is not a supported kind)
EngineNames == {"pdflatex", "lualatex", "latex"}

\* raw file names a request may carry
RawNames ==
  { <<"a", ".tex">>, <<"b">>, <<"../", "a", ".tex">>, <<"c", ".tex">> }

\* documents of the document store (the store is read-only to compile)
StoredDocs == { <<"a", ".tex">>, <<"b", ".tex">> }

\* what an engine run may do: its exit code, the bytes it writes to its two
\* captured streams ("CR", "LF": line-ending bytes; "BAD": a byte that is
\* not valid text), and whether it writes the artifact into the output
\* directory it was given
EngineRuns ==
  { [code |-> 0, out |-> <<"O">>,       err |-> <<"X">>,             wrote |-> TRUE],
    [code |-> 0, out |-> <<"O", "CR">>, err |-> <<"X">>,             wrote |-> FALSE],
    [code |-> 1, out |-> <<"O">>,       err |-> <<"X">>,             wrote |-> FALSE],
    [code |-> 1, out |-> <<"O">>,       err |-> <<"X", "CR", "LF">>, wrote |-> TRUE],
    [code |-> 1, out |-> <<"O">>,       err |-> <<"BAD">>,           wrote |-> FALSE] }

\* engine files an installation change may add or remove
\* (x: the file is executable)
InstallSites ==
  { [dir |-> common_paths[1], base |-> "pdflatex", x |-> TRUE],
    [dir |-> common_paths[2], base |-> "pdflatex", x |-> FALSE],
    [dir |-> SearchPath,      base |-> "pdflatex", x |-> TRUE] }

\* --------------------------------------------------------------- state
VARIABLES
  cwd,          \* the process-wide current directory
  files,        \* the files of the filesystem
  installed,    \* the engine executables of the host
  pc,           \* each thread's position in compile_latex
  filename,     \* compile_latex: filename
  engine_name,  \* compile_latex: engine_name (until the engine is located)
  latex_engine, \* compile_latex: latex_engine
  original_dir, \* compile_latex: original_dir
  cmd,          \* compile_latex: the directory of cmd's -output-directory
  child,        \* the child process of the request
  engine,       \* what the engine did in this request (raw bytes)
  result,       \* compile_latex: result (returncode, stdout, stderr)
  outcome,      \* the response of the request
  located,      \* find_latex_engine was called in this request
  spawned,      \* a child process was spawned in this request
  prev,         \* the response returned last, if its engine was well behaved
  benign,       \* no run so far timed out, failed to spawn or to decode
  nreq,         \* requests accepted so far
  nchg          \* installation changes so far

vars ==
  << cwd, files, installed, pc, filename, engine_name, latex_engine,
     original_dir, cmd, child, engine, result, outcome, located, spawned,
     prev, benign, nreq, nchg >>

\* --------------------------------------------------------------- values
NoName == <<>>
NoDir == <<"?">>
NoEngine == [dir |-> "", base |-> ""]
NoRun == [code |-> 0, out |-> <<>>, err |-> <<>>, wrote |-> FALSE]
NoResult == [returncode |-> 0, stdout |-> <<>>, stderr |-> <<>>]
NoOutcome == [kind |-> "", detail |-> <<>>]
NoPrev == [filename |-> NoName, kind |-> "", pdf |-> <<>>]

OutcomeKinds ==
  { "NotFound", "EngineNotFound", "CompilationFailed", "ArtifactMissing",
    "Timeout", "SystemError", "Success" }

\* ---------------------------------------------------------- filesystem
\* a relative path, resolved against the current directory d
Resolve(d, rel) == d \o rel

IsPrefix(p, q) ==
  /\ Len(p) <= Len(q)
  /\ SubSeq(q, 1, Len(p)) = p

\* the two store directories exist from process start (mkdir at import)
DirExists(d) ==
  \/ d \in { <<>>, TEX_DIR, PDF_DIR }
  \/ \E f \in files : IsPrefix(d, f.dir)

\* Path.exists() of the relative path rel_dir/name with current directory d
PathExists(d, rel_dir, name) ==
  [dir |-> Resolve(d, rel_dir), name |-> name] \in files

\* ------------------------------------------------------ pure functions
\* werkzeug's secure_filename on the modelled names: path components that
\* lead out of the directory are dropped
secure_filename(raw) == SelectSeq(raw, LAMBDA tok : tok # "../")

endswith_tex(name) == Len(name) > 0 /\ name[Len(name)] = ".tex"

\* lines 99-103: the normalized document identifier
NormalizeName(raw) ==
  LET s == secure_filename(raw)
  IN  IF endswith_tex(s) THEN s ELSE s \o <<".tex">>

\* line 118: filename.replace('.tex', '.pdf') replaces every occurrence
pdf_name(name) ==
  [i \in 1..Len(name) |-> IF name[i] = ".tex" THEN ".pdf" ELSE name[i]]

\* the file the engine emits for the document it is given on the command
\* line: the job name is the name without its final extension
JobPdf(name) ==
  IF endswith_tex(name)
    THEN SubSeq(name, 1, Len(name) - 1) \o <<".pdf">>
    ELSE name \o <<".pdf">>

\* EngineBasename with another default than the primary kind
EngineBasenameOtherDefault(name) ==
  IF name \in DOMAIN LATEX_ENGINES THEN LATEX_ENGINES[name] ELSE "xelatex"

\* line 33: LATEX_ENGINES.get(engine_name, 'pdflatex')
EngineBasename(name) ==
  IF name \in DOMAIN LATEX_ENGINES THEN LATEX_ENGINES[name] ELSE "pdflatex"

\* lines 42-45: os.path.exists(os.path.join(path, engine))
ExistsIn(inst, d, base) ==
  \E e \in inst : e.dir = d /\ e.base = base

\* line 48: shutil.which(engine) finds executable files only
Which(inst, base) ==
  IF \E e \in inst : e.dir = SearchPath /\ e.base = base /\ e.x
    THEN [dir |-> SearchPath, base |-> base]
    ELSE NoEngine

\* find_latex_engine with the search path asked before the known directories
find_latex_engine_PathFirst(name, inst) ==
  LET base == EngineBasename(name)
      hits == { i \in 1..Len(common_paths) : ExistsIn(inst, common_paths[i], base) }
  IN  IF Which(inst, base) # NoEngine
        THEN Which(inst, base)
        ELSE IF hits # {}
          THEN LET first == CHOOSE i \in hits : \A j \in hits : i <= j
               IN  [dir |-> common_paths[first], base |-> base]
          ELSE NoEngine

\* lines 31-52
find_latex_engine(name, inst) ==
  LET base == EngineBasename(name)
      hits == { i \in 1..Len(common_paths) : ExistsIn(inst, common_paths[i], base) }
  IN  IF hits # {}
        THEN LET first == CHOOSE i \in hits : \A j \in hits : i <= j
             IN  [dir |-> common_paths[first], base |-> base]
        ELSE Which(inst, base)

\* line 134: the located file can be executed
CanExecute(inst, eng) ==
  \E e \in inst : e.dir = eng.dir /\ e.base = eng.base /\ e.x

\* lines 136-137, text=True: the captured bytes are decoded strictly ...
Decodable(bytes) == \A i \in 1..Len(bytes) : bytes[i] # "BAD"

\* ... and every line ending ("\r\n", "\r") becomes "\n"
RECURSIVE TranslateNewlines(_)
TranslateNewlines(bytes) ==
  IF bytes = <<>> THEN <<>>
  ELSE IF Head(bytes) = "CR"
    THEN IF Len(bytes) > 1 /\ bytes[2] = "LF"
           THEN <<"LF">> \o TranslateNewlines(SubSeq(bytes, 3, Len(bytes)))
           ELSE <<"LF">> \o TranslateNewlines(Tail(bytes))
    ELSE <<Head(bytes)>> \o TranslateNewlines(Tail(bytes))

Decode(bytes) == TranslateNewlines(bytes)

\* line 134: the exception of a launch that fails: the located file is
\* there but not executable, or it is gone
SpawnError(inst, eng) ==
  IF ExistsIn(inst, eng.dir, eng.base) THEN "PermissionError" ELSE "FileNotFoundError"

\* the except clauses with the message of the exception dropped
HandleExceptionNoMessage(exc) ==
  IF exc = "TimeoutExpired"
    THEN [kind |-> "Timeout", detail |-> <<>>]
    ELSE [kind |-> "SystemError", detail |-> <<>>]

\* lines 161-164: the except clauses
HandleException(exc) ==
  IF exc = "TimeoutExpired"
    THEN [kind |-> "Timeout", detail |-> <<>>]
    ELSE [kind |-> "SystemError", detail |-> <<exc>>]

\* Interpret with the artifact looked for before the exit code
InterpretArtifactFirst(res, name, pdf_exists) ==
  IF pdf_exists
    THEN [kind |-> "Success", detail |-> pdf_name(name)]
    ELSE IF res.returncode # 0
      THEN [kind |-> "CompilationFailed", detail |-> res.stderr]
      ELSE [kind |-> "ArtifactMissing", detail |-> res.stdout]

\* lines 143-159: the interpretation of a finished run
Interpret(res, name, pdf_exists) ==
  IF res.returncode # 0
    THEN [kind |-> "CompilationFailed", detail |-> res.stderr]
    ELSE IF pdf_exists
      THEN [kind |-> "Success", detail |-> pdf_name(name)]
      ELSE [kind |-> "ArtifactMissing", detail |-> res.stdout]

\* ----------------------------------------------------------------- Init
\* The process starts in its start directory with the documents of the
\* document store; the artifact store, a directory that outlives the
\* process, may hold an artifact of an earlier run.
Init ==
  /\ cwd = <<>>
  /\ \E stale \in SUBSET { [dir |-> PDF_DIR, name |-> <<"a", ".pdf">>] } :
       files = { [dir |-> TEX_DIR, name |-> d] : d \in StoredDocs } \cup stale
  /\ installed \in { {}, {CHOOSE e \in InstallSites : e.dir = SearchPath} }
  /\ pc = [t \in Threads |-> "idle"]
  /\ filename = [t \in Threads |-> NoName]
  /\ engine_name = [t \in Threads |-> ""]
  /\ latex_engine = [t \in Threads |-> NoEngine]
  /\ original_dir = [t \in Threads |-> NoDir]
  /\ cmd = [t \in Threads |-> NoDir]
  /\ child = [t \in Threads |-> "none"]
  /\ engine = [t \in Threads |-> NoRun]
  /\ result = [t \in Threads |-> NoResult]
  /\ outcome = [t \in Threads |-> NoOutcome]
  /\ located = [t \in Threads |-> FALSE]
  /\ spawned = [t \in Threads |-> FALSE]
  /\ prev = NoPrev
  /\ benign = TRUE
  /\ nreq = 0
  /\ nchg = 0

\* -------------------------------------------------------------- actions
\* the request returns with the response o
Respond(t, o) ==
  /\ outcome' = [outcome EXCEPT ![t] = o]
  /\ pc' = [pc EXCEPT ![t] = "done"]

\* lines 98-107: the request is read, the name normalized, and the document
\* looked up in TEX_DIR, a path relative to the current directory
Begin(t, raw, kind) ==
  /\ pc[t] = "idle"
  /\ nreq < MaxRequests
  /\ nreq' = nreq + 1
  /\ filename' = [filename EXCEPT ![t] = NormalizeName(raw)]
  /\ engine_name' = [engine_name EXCEPT ![t] = kind]
  /\ IF PathExists(cwd, TEX_DIR, NormalizeName(raw))
       THEN /\ pc' = [pc EXCEPT ![t] = "locate"]
            /\ UNCHANGED outcome
       ELSE Respond(t, [kind |-> "NotFound", detail |-> <<>>])
  /\ UNCHANGED << cwd, files, installed, latex_engine, original_dir, cmd,
                  child, engine, result, located, spawned, prev, benign, nchg >>

\* lines 109-115
Locate(t) ==
  /\ pc[t] = "locate"
  /\ located' = [located EXCEPT ![t] = TRUE]
  /\ latex_engine' =
       [latex_engine EXCEPT ![t] = find_latex_engine(engine_name[t], installed)]
  /\ IF find_latex_engine(engine_name[t], installed) = NoEngine
       THEN Respond(t, [kind |-> "EngineNotFound", detail |-> <<engine_name[t]>>])
       ELSE /\ pc' = [pc EXCEPT ![t] = "getcwd"]
            /\ UNCHANGED outcome
  /\ UNCHANGED << cwd, files, installed, filename, engine_name, original_dir,
                  cmd, child, engine, result, spawned, prev, benign, nreq, nchg >>

\* line 123: original_dir = os.getcwd(); engine_name is not read after
\* line 114 and is dropped from the state here
Getcwd(t) ==
  /\ pc[t] = "getcwd"
  /\ original_dir' = [original_dir EXCEPT ![t] = cwd]
  /\ engine_name' = [engine_name EXCEPT ![t] = ""]
  /\ pc' = [pc EXCEPT ![t] = "chdir"]
  /\ UNCHANGED << cwd, files, installed, filename, latex_engine,
                  cmd, child, engine, result, outcome, located, spawned, prev,
                  benign, nreq, nchg >>

\* line 124: os.chdir(TEX_DIR), a path relative to the current directory
Chdir(t) ==
  /\ pc[t] = "chdir"
  /\ IF DirExists(Resolve(cwd, TEX_DIR))
       THEN /\ cwd' = Resolve(cwd, TEX_DIR)
            /\ pc' = [pc EXCEPT ![t] = "cmd"]
            /\ UNCHANGED outcome
       ELSE /\ Respond(t, HandleException("FileNotFoundError"))
            /\ UNCHANGED cwd
  /\ UNCHANGED << files, installed, filename, engine_name, latex_engine,
                  original_dir, cmd, child, engine, result, located, spawned,
                  prev, benign, nreq, nchg >>

\* lines 127-132: PDF_DIR.absolute() is taken against the current directory
BuildCmd(t) ==
  /\ pc[t] = "cmd"
  /\ cmd' = [cmd EXCEPT ![t] = Resolve(cwd, PDF_DIR)]
  /\ pc' = [pc EXCEPT ![t] = "run"]
  /\ UNCHANGED << cwd, files, installed, filename, engine_name, latex_engine,
                  original_dir, child, engine, result, outcome, located,
                  spawned, prev, benign, nreq, nchg >>

\* line 134: subprocess.run starts the child process, or raises
Spawn(t) ==
  /\ pc[t] = "run"
  /\ IF CanExecute(installed, latex_engine[t])
       THEN /\ child' = [child EXCEPT ![t] = "running"]
            /\ spawned' = [spawned EXCEPT ![t] = TRUE]
            /\ pc' = [pc EXCEPT ![t] = "wait"]
            /\ UNCHANGED << outcome, benign >>
       ELSE /\ Respond(t, HandleException(SpawnError(installed, latex_engine[t])))
            /\ benign' = FALSE
            /\ UNCHANGED << child, spawned >>
  /\ UNCHANGED << cwd, files, installed, filename, engine_name, latex_engine,
                  original_dir, cmd, engine, result, located, prev, nreq, nchg >>

\* lines 134-139: the child exits as run tells; subprocess.run decodes the
\* captured streams and returns, or raises
RunCompletes(t, run) ==
  /\ pc[t] = "wait"
  /\ child[t] = "running"
  /\ child' = [child EXCEPT ![t] = "exited"]
  /\ engine' = [engine EXCEPT ![t] = run]
  /\ files' = IF run.wrote
       THEN files \cup { [dir |-> cmd[t], name |-> JobPdf(filename[t])] }
       ELSE files
  /\ IF Decodable(run.out) /\ Decodable(run.err)
       THEN /\ result' = [result EXCEPT ![t] =
                 [returncode |-> run.code,
                  stdout |-> Decode(run.out),
                  stderr |-> Decode(run.err)]]
            /\ pc' = [pc EXCEPT ![t] = "restore"]
            /\ UNCHANGED << outcome, benign >>
       ELSE /\ Respond(t, HandleException("UnicodeDecodeError"))
            /\ benign' = FALSE
            /\ UNCHANGED result
  /\ UNCHANGED << cwd, installed, filename, engine_name, latex_engine,
                  original_dir, cmd, located, spawned, prev, nreq, nchg >>

\* RunTimesOut without the kill: the wait is given up, the child runs on
RunTimesOutNoKill(t) ==
  /\ pc[t] = "wait"
  /\ child[t] = "running"
  /\ Respond(t, HandleException("TimeoutExpired"))
  /\ benign' = FALSE
  /\ UNCHANGED << cwd, files, installed, filename, engine_name, latex_engine,
                  original_dir, cmd, child, engine, result, located, spawned,
                  prev, nreq, nchg >>

\* lines 134-139 and 161-162: the child is still running when the timeout
\* elapses; subprocess.run kills it, waits for it and raises TimeoutExpired
RunTimesOut(t) ==
  /\ pc[t] = "wait"
  /\ child[t] = "running"
  /\ child' = [child EXCEPT ![t] = "killed"]
  /\ Respond(t, HandleException("TimeoutExpired"))
  /\ benign' = FALSE
  /\ UNCHANGED << cwd, files, installed, filename, engine_name, latex_engine,
                  original_dir, cmd, engine, result, located, spawned, prev,
                  nreq, nchg >>

\* line 141: os.chdir(original_dir)
Restore(t) ==
  /\ pc[t] = "restore"
  /\ IF DirExists(original_dir[t])
       THEN /\ cwd' = original_dir[t]
            /\ pc' = [pc EXCEPT ![t] = "interpret"]
            /\ UNCHANGED outcome
       ELSE /\ Respond(t, HandleException("FileNotFoundError"))
            /\ UNCHANGED cwd
  /\ UNCHANGED << files, installed, filename, engine_name, latex_engine,
                  original_dir, cmd, child, engine, result, located, spawned,
                  prev, benign, nreq, nchg >>

\* lines 143-159: pdf_file is a path relative to the current directory
InterpretResult(t) ==
  /\ pc[t] = "interpret"
  /\ Respond(t, Interpret(result[t], filename[t],
                          PathExists(cwd, PDF_DIR, pdf_name(filename[t]))))
  /\ UNCHANGED << cwd, files, installed, filename, engine_name, latex_engine,
                  original_dir, cmd, child, engine, result, located, spawned,
                  prev, benign, nreq, nchg >>

\* the engine of the request exited zero and wrote the artifact into the
\* output directory it was given
WellBehaved(t) ==
  /\ child[t] = "exited"
  /\ engine[t].code = 0
  /\ engine[t].wrote

\* the response is delivered and the thread takes the next request
Return(t) ==
  /\ pc[t] = "done"
  /\ prev' = IF WellBehaved(t)
       THEN [filename |-> filename[t],
             kind |-> outcome[t].kind,
             pdf |-> IF outcome[t].kind = "Success" THEN outcome[t].detail ELSE <<>>]
       ELSE NoPrev
  /\ pc' = [pc EXCEPT ![t] = "idle"]
  /\ filename' = [filename EXCEPT ![t] = NoName]
  /\ engine_name' = [engine_name EXCEPT ![t] = ""]
  /\ latex_engine' = [latex_engine EXCEPT ![t] = NoEngine]
  /\ original_dir' = [original_dir EXCEPT ![t] = NoDir]
  /\ cmd' = [cmd EXCEPT ![t] = NoDir]
  /\ child' = [child EXCEPT ![t] = "none"]
  /\ engine' = [engine EXCEPT ![t] = NoRun]
  /\ result' = [result EXCEPT ![t] = NoResult]
  /\ outcome' = [outcome EXCEPT ![t] = NoOutcome]
  /\ located' = [located EXCEPT ![t] = FALSE]
  /\ spawned' = [spawned EXCEPT ![t] = FALSE]
  /\ UNCHANGED << cwd, files, installed, benign, nreq, nchg >>

\* the host's installation changes: an engine file appears
Install(e) ==
  /\ nchg < MaxInstallChanges
  /\ e \notin installed
  /\ installed' = installed \cup {e}
  /\ nchg' = nchg + 1
  /\ UNCHANGED << cwd, files, pc, filename, engine_name, latex_engine,
                  original_dir, cmd, child, engine, result, outcome, located,
                  spawned, prev, benign, nreq >>

\* the host's installation changes: an engine file vanishes
Uninstall(e) ==
  /\ nchg < MaxInstallChanges
  /\ e \in installed
  /\ installed' = installed \ {e}
  /\ nchg' = nchg + 1
  /\ UNCHANGED << cwd, files, pc, filename, engine_name, latex_engine,
                  original_dir, cmd, child, engine, result, outcome, located,
                  spawned, prev, benign, nreq >>

\* one step of the request of thread t
Step(t) ==
  \/ Locate(t)
  \/ Getcwd(t)
  \/ Chdir(t)
  \/ BuildCmd(t)
  \/ Spawn(t)
  \/ \E run \in EngineRuns : RunCompletes(t, run)
  \/ RunTimesOut(t)
  \/ Restore(t)
  \/ InterpretResult(t)

Environment ==
  \/ \E e \in InstallSites : Install(e)
  \/ \E e \in InstallSites : Uninstall(e)

ThreadNext(t) ==
  \/ \E raw \in RawNames, kind \in EngineNames : Begin(t, raw, kind)
  \/ Step(t)
  \/ Return(t)

\* the threads of the server handle requests concurrently
Next ==
  \/ \E t \in Threads : ThreadNext(t)
  \/ Environment

Spec == Init /\ [][Next]_vars

\* one request at a time: a thread moves only while every other is idle
SeqNext ==
  \/ \E t \in Threads :
       /\ \A u \in Threads \ {t} : pc[u] = "idle"
       /\ ThreadNext(t)
  \/ Environment

SeqSpec == Init /\ [][SeqNext]_vars

\* a document store whose document has ".tex" before its final extension
\* too (save_file stores any name that ends in .tex)
DottedDocs == { <<"a", ".tex", ".tex">> }

\* raw file names of the requests to that store
DottedRawNames == { <<"a", ".tex", ".tex">>, <<"../", "a", ".tex", ".tex">>, <<"a">> }

NameInit ==
  /\ cwd = <<>>
  /\ files = { [dir |-> TEX_DIR, name |-> d] : d \in DottedDocs }
  /\ installed \in { {}, {CHOOSE e \in InstallSites : e.dir = SearchPath} }
  /\ pc = [t \in Threads |-> "idle"]
  /\ filename = [t \in Threads |-> NoName]
  /\ engine_name = [t \in Threads |-> ""]
  /\ latex_engine = [t \in Threads |-> NoEngine]
  /\ original_dir = [t \in Threads |-> NoDir]
  /\ cmd = [t \in Threads |-> NoDir]
  /\ child = [t \in Threads |-> "none"]
  /\ engine = [t \in Threads |-> NoRun]
  /\ result = [t \in Threads |-> NoResult]
  /\ outcome = [t \in Threads |-> NoOutcome]
  /\ located = [t \in Threads |-> FALSE]
  /\ spawned = [t \in Threads |-> FALSE]
  /\ prev = NoPrev
  /\ benign = TRUE
  /\ nreq = 0
  /\ nchg = 0

\* one request at a time, for the names of DottedRawNames
NameNext ==
  \/ \E t \in Threads :
       /\ \A u \in Threads \ {t} : pc[u] = "idle"
       /\ \/ \E raw \in DottedRawNames, kind \in EngineNames : Begin(t, raw, kind)
          \/ Step(t)
          \/ Return(t)
  \/ Environment

NameSpec == NameInit /\ [][NameNext]_vars

\* a process that starts on a host with any of the engine files installed
LocInit ==
  /\ cwd = <<>>
  /\ files = { [dir |-> TEX_DIR, name |-> d] : d \in StoredDocs }
  /\ installed \in SUBSET InstallSites
  /\ pc = [t \in Threads |-> "idle"]
  /\ filename = [t \in Threads |-> NoName]
  /\ engine_name = [t \in Threads |-> ""]
  /\ latex_engine = [t \in Threads |-> NoEngine]
  /\ original_dir = [t \in Threads |-> NoDir]
  /\ cmd = [t \in Threads |-> NoDir]
  /\ child = [t \in Threads |-> "none"]
  /\ engine = [t \in Threads |-> NoRun]
  /\ result = [t \in Threads |-> NoResult]
  /\ outcome = [t \in Threads |-> NoOutcome]
  /\ located = [t \in Threads |-> FALSE]
  /\ spawned = [t \in Threads |-> FALSE]
  /\ prev = NoPrev
  /\ benign = TRUE
  /\ nreq = 0
  /\ nchg = 0

LocSpec == LocInit /\ [][SeqNext]_vars

TypeOK ==
  /\ \A t \in Threads : outcome[t].kind \in OutcomeKinds \cup {""}
  /\ nreq <= MaxRequests

\* ------------------------------------------------------------- claims
\* the two stores, as the directories they are at process start
DocumentStore == Resolve(<<>>, TEX_DIR)
ArtifactStore == Resolve(<<>>, PDF_DIR)

Stored(name) == [dir |-> DocumentStore, name |-> name] \in files
ArtifactExists(name) == [dir |-> ArtifactStore, name |-> name] \in files

Done(t) == pc[t] = "done"

\* the engine of the request ran and exited
Exited(t) == child[t] = "exited"

\* C1: when the engine exits zero and has written the artifact into the
\* output directory it was given, the request returns Success with the
\* artifact reference, and the artifact is in the artifact store.
C1_SuccessWhenArtifactWritten ==
  \A t \in Threads :
    Done(t) /\ WellBehaved(t) =>
      /\ outcome[t] = [kind |-> "Success", detail |-> pdf_name(filename[t])]
      /\ ArtifactExists(outcome[t].detail)

\* C2: when the engine exits zero without writing the artifact, the request
\* returns ArtifactMissing with the captured standard output, whatever the
\* artifact store held before.
C2_ArtifactMissingWhenNotWritten ==
  \A t \in Threads :
    Done(t) /\ Exited(t) /\ engine[t].code = 0 /\ ~engine[t].wrote =>
      outcome[t] = [kind |-> "ArtifactMissing", detail |-> Decode(engine[t].out)]

\* C3: a request whose child is still running when the timeout elapses
\* returns Timeout, and when it returns its child has been killed: no
\* request that has returned, and no idle thread, has a running child.
C3_TimeoutKillsChild ==
  \A t \in Threads :
    /\ pc[t] \in {"idle", "done"} => child[t] # "running"
    /\ child[t] = "killed" => Done(t) /\ outcome[t].kind = "Timeout"
    /\ Done(t) /\ outcome[t].kind = "Timeout" => spawned[t] /\ child[t] = "killed"

C3_Witness ==
  \E t \in Threads :
    Done(t) /\ outcome[t].kind = "Timeout" /\ spawned[t] /\ child[t] = "killed"

\* C4: while no run has timed out, failed to start or failed to decode, a
\* request for a stored document, running beside requests for other
\* documents, returns neither not-found nor SystemError (as it would not
\* when run alone).
C4_ConcurrentAsAlone ==
  \A t \in Threads :
    ( /\ benign
      /\ Done(t)
      /\ Stored(filename[t])
      /\ \A u \in Threads \ {t} : filename[u] # filename[t] )
    => outcome[t].kind \notin {"NotFound", "SystemError"}

\* C5: two compiles of the same document in succession, each with an
\* engine that exits zero and writes the artifact into the output directory
\* it is given, both return Success with the same artifact identifier,
\* which names a file of the artifact store.
C5_Idempotent ==
  \A t \in Threads :
    ( /\ Done(t)
      /\ WellBehaved(t)
      /\ prev.filename = filename[t] )
    => /\ prev.kind = "Success"
       /\ outcome[t].kind = "Success"
       /\ outcome[t].detail = prev.pdf
       /\ ArtifactExists(outcome[t].detail)

\* C6: when the engine exits non-zero having written X to standard error,
\* the request returns CompilationFailed carrying exactly X.
C6_StderrVerbatim ==
  \A t \in Threads :
    Done(t) /\ Exited(t) /\ engine[t].code # 0 =>
      outcome[t] = [kind |-> "CompilationFailed", detail |-> engine[t].err]

\* no file of the engine kind is on the host at any time of a behaviour
NeverInstalled(kind) == \A e \in InstallSites : e.base # kind

\* C7: a request for a stored document and a supported engine kind of which
\* the host holds no file returns EngineNotFound naming the requested kind,
\* and spawns no child.
C7_EngineNotFound ==
  \A t \in Threads :
    ( /\ Done(t)
      /\ Stored(filename[t])
      /\ engine_name[t] \in DOMAIN LATEX_ENGINES
      /\ NeverInstalled(engine_name[t]) )
    => /\ outcome[t] = [kind |-> "EngineNotFound", detail |-> <<engine_name[t]>>]
       /\ ~spawned[t]

\* C8: a request whose document is not in the document store returns
\* not-found without locating an engine or spawning a child, and a request
\* returns not-found only if its document is not in the document store.
C8_NotFoundIffAbsent ==
  \A t \in Threads :
    Done(t) =>
      /\ ~Stored(filename[t]) =>
            outcome[t].kind = "NotFound" /\ ~located[t] /\ ~spawned[t]
      /\ outcome[t].kind = "NotFound" => ~Stored(filename[t])

\* the run of the request raised inside the try block
Raised(t) ==
  \/ child[t] = "none"
  \/ Exited(t) /\ ~(Decodable(engine[t].out) /\ Decodable(engine[t].err))

C10_UnknownKindIsDefault ==
  [][ \A t \in Threads :
        ( /\ pc[t] = "locate"
          /\ pc'[t] # "locate"
          /\ engine_name[t] \notin DOMAIN LATEX_ENGINES )
        => /\ latex_engine'[t] = find_latex_engine("pdflatex", installed)
           /\ outcome'[t].kind = "EngineNotFound" <=>
                 find_latex_engine("pdflatex", installed) = NoEngine
           /\ outcome'[t].kind \in {"", "EngineNotFound"} ]_vars

\* an unsupported kind was resolved to an installed pdflatex
C10_Witness ==
  \E t \in Threads :
    /\ engine_name[t] \notin DOMAIN LATEX_ENGINES
    /\ located[t]
    /\ latex_engine[t] # NoEngine
    /\ latex_engine[t].base = "pdflatex"

\* the directory of the -output-directory argument holds the file name
EmittedAs(t, name) == [dir |-> cmd[t], name |-> name] \in files

\* C11: the artifact identifier that compile checks for and returns is the
\* name under which the engine emitted its output: once the engine of a
\* request has written its output, the output directory it was given holds a
\* file of the name pdf_name(filename), also for a document name with
\* ".tex" before its final extension.
C11_ArtifactNameIsEmittedName ==
  \A t \in Threads :
    Exited(t) /\ engine[t].wrote => EmittedAs(t, pdf_name(filename[t]))

\* C12: the directory of the -output-directory argument is the artifact
\* store, and it is the directory in which line 149, about to run, looks for
\* the artifact.
C12_OutputDirIsArtifactStore ==
  \A t \in Threads :
    cmd[t] # NoDir =>
      /\ cmd[t] = ArtifactStore
      /\ pc[t] = "interpret" => cmd[t] = Resolve(cwd, PDF_DIR)

\* C13: a request that has returned, with whatever outcome, has left the
\* current directory as it found it, and between sequential requests the
\* current directory is the start directory.
C13_CwdUnchanged ==
  /\ \A t \in Threads :
       Done(t) /\ original_dir[t] # NoDir => cwd = original_dir[t]
  /\ (\A t \in Threads : pc[t] \in {"idle", "done"}) => cwd = <<>>

\* lines 68-75: get_file finds the document, by a path relative to the
\* current directory
get_file(raw) == PathExists(cwd, TEX_DIR, secure_filename(raw))

\* C14: no state of the process outlives a request: once a request has ended
\* in Timeout or SystemError, a request for a stored document still does not
\* return not-found, and between requests a read finds every stored
\* document, as in a fresh process.
C14_NoLongLivedState ==
  ~benign =>
    /\ \A t \in Threads :
         Done(t) /\ Stored(filename[t]) => outcome[t].kind # "NotFound"
    /\ (\A t \in Threads : pc[t] = "idle") =>
         \A d \in StoredDocs : get_file(d)

\* the launch of the request of thread t is about to fail with exc
LaunchFails(t, exc) ==
  \/ /\ pc[t] = "chdir"
     /\ ~DirExists(Resolve(cwd, TEX_DIR))
     /\ exc = "FileNotFoundError"
  \/ /\ pc[t] = "run"
     /\ ~CanExecute(installed, latex_engine[t])
     /\ exc = SpawnError(installed, latex_engine[t])

\* C15: when the engine was located and its launch fails (the located file
\* is not executable, or is gone, or the working directory cannot be
\* entered), the step of the request returns SystemError with the message
\* of the exception, and the request has no child process.
C15_LaunchFailureIsSystemError ==
  [][ \A t \in Threads :
        \A exc \in {"PermissionError", "FileNotFoundError"} :
          LaunchFails(t, exc) /\ pc'[t] # pc[t] =>
            /\ pc'[t] = "done"
            /\ outcome'[t] = [kind |-> "SystemError", detail |-> <<exc>>]
            /\ child'[t] = "none"
            /\ ~spawned'[t] ]_vars

\* a request returned SystemError because the located file, found by
\* os.path.exists in a known directory, is not executable
C15_Witness ==
  \E t \in Threads :
    /\ Done(t)
    /\ outcome[t] = [kind |-> "SystemError", detail |-> <<"PermissionError">>]
    /\ latex_engine[t] # NoEngine
    /\ ~spawned[t]
    /\ child[t] = "none"

\* the executable of the kind is on the search path, as shutil.which sees it
OnSearchPath(base) ==
  \E e \in installed : e.dir = SearchPath /\ e.base = base /\ e.x

\* the executable of the kind is in the i-th known directory
InKnownDir(i, base) ==
  \E e \in installed : e.dir = common_paths[i] /\ e.base = base

\* C16: at every locate step, with the installation of that moment: the
\* result is <directory>/<basename> for the first known directory that holds
\* the executable; it is the search-path result only when no known directory
\* holds it; it is absent exactly when no known directory holds it and the
\* search path does not find it.
C16_LocatorPriorityAndFreshness ==
  [][ \A t \in Threads :
        pc[t] = "locate" /\ pc'[t] # "locate" =>
          LET base == EngineBasename(engine_name[t])
              known == 1..Len(common_paths)
          IN  /\ \A i \in known :
                   ( InKnownDir(i, base) /\ \A j \in known : j < i => ~InKnownDir(j, base) )
                   => latex_engine'[t] = [dir |-> common_paths[i], base |-> base]
              /\ latex_engine'[t].dir = SearchPath =>
                   /\ \A i \in known : ~InKnownDir(i, base)
                   /\ OnSearchPath(base)
                   /\ latex_engine'[t].base = base
              /\ latex_engine'[t] = NoEngine <=>
                   (\A i \in known : ~InKnownDir(i, base)) /\ ~OnSearchPath(base) ]_vars

\* an engine was located in the first known directory while the second
\* known directory and the search path held it too, after the installation
\* had changed since the process started
C16_Witness ==
  \E t \in Threads :
    /\ located[t]
    /\ latex_engine[t] # NoEngine
    /\ latex_engine[t].dir = common_paths[1]
    /\ InKnownDir(1, latex_engine[t].base)
    /\ InKnownDir(2, latex_engine[t].base)
    /\ OnSearchPath(latex_engine[t].base)
    /\ nchg > 0

====
